---- MODULE Spec2Model ----
(***************************************************************************)
(* A model of app.py of the CGSpace agent demo: the local substring        *)
(* search (buscar_localmente), the normalisation of the remote search      *)
(* response (buscar_en_cgspace_api), the chat turn handler with its        *)
(* summary, and the filter panel.                                          *)
(*                                                                         *)
(* Conventions.  A Python str is a sequence of one-character strings.  An  *)
(* optional value (None / NaN in a DataFrame cell) is a sequence of length *)
(* zero (absent) or one (present).  A DataFrame is a sequence of rows;     *)
(* each row carries its pandas index label in the field idx.               *)
(***************************************************************************)
EXTENDS Integers, Sequences, FiniteSets, TLC

VARIABLES
    \* buscar_localmente: its arguments, and what the call produced
    query, df, max_results, resultados,
    \* buscar_en_cgspace_api: one object of the response, and its row
    obj, fila,
    \* the filter panel: input frame, widget values, frame after each filter
    df_res, year_range, paises_sel, df_year, df_pais,
    \* the session: st.session_state and the locals of the turn handler
    df_base, messages, results_df, df_resultados, fuente_datos, respuesta, exc,
    \* which part of the script the model is at
    pc

vars == <<query, df, max_results, resultados, obj, fila,
          df_res, year_range, paises_sel, df_year, df_pais,
          df_base, messages, results_df, df_resultados, fuente_datos,
          respuesta, exc, pc>>

search_vars  == <<query, df, max_results, resultados>>
api_vars     == <<obj, fila>>
panel_vars   == <<df_res, year_range, paises_sel, df_year, df_pais>>
session_vars == <<df_base, messages, results_df, df_resultados, fuente_datos,
                  respuesta, exc>>

-----------------------------------------------------------------------------
(* Bounds of the model *)

MaxRows == 3
MaxSummaryRows == 4
MaxBaseRows == 2
MaxTurns == 2

-----------------------------------------------------------------------------
(* Values *)

NaN == <<>>
Val(x) == <<x>>
notna(v) == Len(v) = 1
isna(v) == Len(v) = 0

Min(a, b) == IF a <= b THEN a ELSE b
Range(s) == {s[i] : i \in 1..Len(s)}

\* str.lower(), one character
LowerChar(c) ==
    CASE c = "A" -> "a"
      [] c = "C" -> "c"
      [] c = "K" -> "k"
      [] c = "N" -> "n"
      [] c = "O" -> "o"
      [] c = "P" -> "p"
      [] c = "U" -> "u"
      [] OTHER -> c

\* str.lower()
lower(s) == [i \in 1..Len(s) |-> LowerChar(s[i])]

\* Series.astype(str) on one cell: a missing cell becomes the text "nan"
astype_str(v) == IF isna(v) THEN <<"n", "a", "n">> ELSE v[1]

\* re.compile(pat) raises re.error for an unbalanced parenthesis
re_error(pat) == \E i \in 1..Len(pat) : pat[i] \in {"(", ")"}

\* re.search(pat, s) for patterns of literals and the wildcard "."
re_search(pat, s) ==
    \E k \in 1..(Len(s) - Len(pat) + 1) :
        \A i \in 1..Len(pat) : pat[i] = "." \/ pat[i] = s[k + i - 1]

\* Series.str.contains(q) on one cell: regex=True is the default
str_contains(s, q) == re_search(q, s)

-----------------------------------------------------------------------------
(* buscar_localmente *)

columnas_texto == <<"Titulo", "Pais", "PalabrasClave">>

\* df[mask]: boolean indexing keeps the rows selected (those in the set keep)
\* in frame order
boolean_index(d, keep) ==
    LET F[i \in 0..Len(d)] ==
            IF i = 0 THEN <<>>
            ELSE IF d[i] \in keep THEN Append(F[i - 1], d[i]) ELSE F[i - 1]
    IN  F[Len(d)]

\* one row's entry of mask: OR over the text columns of
\* df[col].astype(str).str.lower().str.contains(q)
mask(q, row) ==
    \E c \in 1..Len(columnas_texto) :
        str_contains(lower(astype_str(row[columnas_texto[c]])), q)

Bijections(n) ==
    {p \in [1..n -> 1..n] : \A i, j \in 1..n : p[i] = p[j] => i = j}

\* DataFrame.sort_values("Año", ascending=False): kind defaults to
\* "quicksort", which is not stable, so rows with equal years may come out in
\* any order; rows with a missing year are appended at the end in frame order
\* (na_position="last").  The set of frames the call may return.
sort_values_desc(d) ==
    LET n == Len(d)
        k == Cardinality({i \in 1..n : notna(d[i].Anio)})
    IN  {[i \in 1..n |-> d[p[i]]] : p \in
            {p \in Bijections(n) :
                /\ \A i \in 1..n : (i <= k) <=> notna(d[p[i]].Anio)
                /\ \A i, j \in 1..k : i < j => d[p[i]].Anio[1] >= d[p[j]].Anio[1]
                /\ \A i, j \in (k + 1)..n : i < j => p[i] < p[j]}}

\* DataFrame.head(n), n >= 0
head(d, n) == SubSeq(d, 1, Min(n, Len(d)))

EmptyDataFrame == <<>>

Returned(d) == [exc |-> "none", df |-> d]
Raised(e) == [exc |-> e, df |-> EmptyDataFrame]

\* buscar_localmente with head() applied before sort_values()
buscar_localmente_head_first(q0, d, n) ==
    IF q0 = <<>> \/ d = <<>> THEN {Returned(EmptyDataFrame)}
    ELSE LET q == lower(q0)
         IN  IF re_error(q) THEN {Raised("re.error")}
             ELSE LET keep == {row \in Range(d) : mask(q, row)}
                  IN  {Returned(s) :
                          s \in sort_values_desc(head(boolean_index(d, keep), n))}

\* The outcomes of buscar_localmente(query, df, max_results)
buscar_localmente(q0, d, n) ==
    IF q0 = <<>> \/ d = <<>> THEN {Returned(EmptyDataFrame)}
    ELSE LET q == lower(q0)
         IN  IF re_error(q) THEN {Raised("re.error")}
             ELSE LET keep == {row \in Range(d) : mask(q, row)}
                  IN  {Returned(head(s, n)) :
                          s \in sort_values_desc(boolean_index(d, keep))}

-----------------------------------------------------------------------------
(* Inputs of the local search *)

Co == <<"C", "o">>
ab == <<"a", "b">>
Pe == <<"P", "e">>
co_x == <<"c", "o", ";", "x">>

Anios == {NaN, Val(2019), Val(2020)}

\* the text cells of a row of cgspace_demo.csv
Textos ==
    { [Titulo |-> Val(Co), Pais |-> Val(Pe), PalabrasClave |-> NaN],
      [Titulo |-> Val(ab), Pais |-> NaN,     PalabrasClave |-> Val(co_x)],
      [Titulo |-> Val(ab), Pais |-> Val(Pe), PalabrasClave |-> Val(ab)] }

Row(i, t, a) ==
    [idx |-> i, Titulo |-> t.Titulo, Anio |-> a, Pais |-> t.Pais,
     PalabrasClave |-> t.PalabrasClave, Enlace |-> NaN]

\* the frames read_csv can produce: a RangeIndex 0..n-1 over any rows
LocalFrames(maxlen) ==
    UNION { { [i \in 1..n |-> Row(i - 1, c[i][1], c[i][2])] :
                c \in [1..n -> Textos \X Anios] } : n \in 0..maxlen }

Queries == { <<>>, <<"C", "O">>, <<"n", "a">>, <<"c", ".">>, <<"(">>, <<"x", "y">> }

MaxResultsValues == {0, 1, 2, 200}

Idle == <<>>

\* the options of the "Fuente de datos" radio
CSV_LOCAL == "CSV local (demo estable)"
API_CGSPACE == "API CGSpace (experimental)"

SearchIdle ==
    /\ query = Idle /\ df = Idle /\ max_results = 0 /\ resultados = Returned(Idle)
ApiIdle == obj = Idle /\ fila = Idle
PanelIdle ==
    /\ df_res = Idle /\ year_range = Idle /\ paises_sel = {}
    /\ df_year = Idle /\ df_pais = Idle
SessionIdle ==
    /\ df_base = Idle /\ messages = Idle /\ results_df = Idle
    /\ df_resultados = Idle /\ fuente_datos = CSV_LOCAL
    /\ respuesta = Idle /\ exc = "none"

InitSearch ==
    /\ df \in LocalFrames(MaxRows)
    /\ query \in Queries
    /\ max_results \in MaxResultsValues
    /\ resultados = Returned(EmptyDataFrame)
    /\ pc = "call"
    /\ ApiIdle /\ PanelIdle /\ SessionIdle

CallBuscarLocalmente ==
    /\ pc = "call"
    /\ resultados' \in buscar_localmente(query, df, max_results)
    /\ pc' = "done"
    /\ UNCHANGED <<query, df, max_results, api_vars, panel_vars, session_vars>>

NextSearch == CallBuscarLocalmente

SpecSearch == InitSearch /\ [][NextSearch]_vars

-----------------------------------------------------------------------------
(* Properties of the local search *)

\* p occurs in s as a plain substring
IsSubstring(p, s) ==
    \E k \in 1..(Len(s) - Len(p) + 1) : \A i \in 1..Len(p) : p[i] = s[k + i - 1]

\* an absent cell stands for the empty string
TextOf(v) == IF isna(v) THEN <<>> ELSE v[1]

MatchPredicate(q0, row) ==
    \/ IsSubstring(lower(q0), lower(TextOf(row.Titulo)))
    \/ IsSubstring(lower(q0), lower(TextOf(row.Pais)))
    \/ IsSubstring(lower(q0), lower(TextOf(row.PalabrasClave)))

SearchReturned == pc = "done" /\ resultados.exc = "none"

\* C2: every record the local search returns has the lower-cased query as a
\* substring of its lower-cased title, country or keywords, an absent field
\* counting as the empty string.
C2_OnlyMatchingRecords ==
    SearchReturned =>
        \A i \in 1..Len(resultados.df) : MatchPredicate(query, resultados.df[i])

\* the rows of df the search selects (none on the early return for an empty query)
Matching == {i \in 1..Len(df) : query # <<>> /\ mask(lower(query), df[i])}

\* year a comes strictly before year b in the descending order, absent last
YearBefore(a, b) == notna(a) /\ (isna(b) \/ a[1] > b[1])

ReturnedIdx == {resultados.df[i].idx : i \in 1..Len(resultados.df)}

\* C3: the result has min(maxResults, number of matches) records, all of them
\* matches, in year-descending order, and no omitted match has a year strictly
\* greater than a returned one: truncation happens after sorting.
C3_TruncatedAfterSort ==
    SearchReturned =>
        LET res == resultados.df
        IN  /\ Len(res) <= max_results
            /\ Len(res) = Min(max_results, Cardinality(Matching))
            /\ \A i \in 1..Len(res) :
                   (res[i].idx + 1) \in Matching /\ res[i] = df[res[i].idx + 1]
            /\ \A i, j \in 1..Len(res) : i # j => res[i].idx # res[j].idx
            /\ \A i, j \in 1..Len(res) :
                   i < j => ~YearBefore(res[j].Anio, res[i].Anio)
            /\ \A m \in Matching : (m - 1) \notin ReturnedIdx =>
                   \A i \in 1..Len(res) : ~YearBefore(df[m].Anio, res[i].Anio)

\* a truncation that had to choose: a match with a later year than another
\* match was kept and the older one dropped
C3_Witness ==
    /\ SearchReturned
    /\ Len(resultados.df) = max_results
    /\ max_results >= 1
    /\ \E m \in Matching :
          /\ (m - 1) \notin ReturnedIdx
          /\ \E i \in 1..Len(resultados.df) :
                /\ YearBefore(resultados.df[i].Anio, df[m].Anio)
                /\ resultados.df[i].idx > m - 1

\* C4: matches are ordered by year descending, records without a year after
\* all records with one, and two records with equal (or both absent) year keep
\* their relative order of the input collection.
C4_StableYearDescending ==
    SearchReturned =>
        LET res == resultados.df
        IN  \A i, j \in 1..Len(res) : i < j =>
                /\ ~YearBefore(res[j].Anio, res[i].Anio)
                /\ res[i].Anio = res[j].Anio => res[i].idx < res[j].idx

-----------------------------------------------------------------------------
(* buscar_en_cgspace_api: one object of the response to one row.           *)
(* indexable.metadata maps a qualified field name to a list of values (the *)
(* "value" of each entry); a key that is not in the mapping is NaN here.   *)

has_key(metadata, key) == notna(metadata[key])
entries(metadata, key) == metadata[key][1]

isdigit(c) == c \in {"0", "1", "2", "3", "4", "5", "6", "7", "8", "9"}

DigitValue(c) ==
    CASE c = "0" -> 0 [] c = "1" -> 1 [] c = "2" -> 2 [] c = "3" -> 3
      [] c = "4" -> 4 [] c = "5" -> 5 [] c = "6" -> 6 [] c = "7" -> 7
      [] c = "8" -> 8 [] c = "9" -> 9

\* len(v) >= 4 and v[:4].isdigit()
year_parses(v) == Len(v) >= 4 /\ \A i \in 1..4 : isdigit(v[i])

\* int(v[:4])
int_prefix4(v) ==
    1000 * DigitValue(v[1]) + 100 * DigitValue(v[2])
        + 10 * DigitValue(v[3]) + DigitValue(v[4])

titulo_keys == <<"dc.title", "dcterms.title">>
anio_keys == <<"dcterms.issued", "dc.date.issued">>
pais_keys == <<"cg.country", "cg.coverage.country", "dc.coverage.spatial">>
palabras_keys == <<"cg.subject", "dc.subject", "dcterms.subject">>

\* A field's outcome: [exc, v]; metadata[key][0] raises IndexError on an
\* empty list.
Got(v) == [exc |-> "none", v |-> v]
IndexError == [exc |-> "IndexError", v |-> NaN]

\* if "dc.title" in metadata ... elif "dcterms.title" in metadata ... else name
titulo_de(indexable) ==
    LET metadata == indexable.metadata
    IN  IF has_key(metadata, "dc.title")
        THEN IF entries(metadata, "dc.title") = <<>> THEN IndexError
             ELSE Got(Val(entries(metadata, "dc.title")[1]))
        ELSE IF has_key(metadata, "dcterms.title")
        THEN IF entries(metadata, "dcterms.title") = <<>> THEN IndexError
             ELSE Got(Val(entries(metadata, "dcterms.title")[1]))
        ELSE Got(indexable.name)

\* the year loop with the break taken as soon as a key is present
RECURSIVE anio_desde_first_present(_, _)
anio_desde_first_present(metadata, k) ==
    IF k > Len(anio_keys) THEN Got(NaN)
    ELSE IF has_key(metadata, anio_keys[k])
    THEN IF entries(metadata, anio_keys[k]) = <<>> THEN IndexError
         ELSE LET v == entries(metadata, anio_keys[k])[1]
              IN  IF year_parses(v) THEN Got(Val(int_prefix4(v)))
                  ELSE Got(NaN)
    ELSE anio_desde_first_present(metadata, k + 1)

\* the loop over the year keys, from key number k on: the break is inside the
\* test of the value, so a key whose value does not parse is passed over
RECURSIVE anio_desde(_, _)
anio_desde(metadata, k) ==
    IF k > Len(anio_keys) THEN Got(NaN)
    ELSE IF has_key(metadata, anio_keys[k])
    THEN IF entries(metadata, anio_keys[k]) = <<>> THEN IndexError
         ELSE LET v == entries(metadata, anio_keys[k])[1]
              IN  IF year_parses(v) THEN Got(Val(int_prefix4(v)))
                  ELSE anio_desde(metadata, k + 1)
    ELSE anio_desde(metadata, k + 1)

anio_de(indexable) == anio_desde(indexable.metadata, 1)

\* the loop over the country keys: break at the first key present
RECURSIVE pais_desde(_, _)
pais_desde(metadata, k) ==
    IF k > Len(pais_keys) THEN Got(NaN)
    ELSE IF has_key(metadata, pais_keys[k])
    THEN IF entries(metadata, pais_keys[k]) = <<>> THEN IndexError
         ELSE Got(Val(entries(metadata, pais_keys[k])[1]))
    ELSE pais_desde(metadata, k + 1)

pais_de(indexable) == pais_desde(indexable.metadata, 1)

\* "; ".join(palabras)
RECURSIVE join(_)
join(palabras) ==
    IF Len(palabras) = 1 THEN palabras[1]
    ELSE palabras[1] \o <<";", " ">> \o join(Tail(palabras))

\* the loop over the keyword keys: all values of the first key present
RECURSIVE palabras_desde(_, _)
palabras_desde(metadata, k) ==
    IF k > Len(palabras_keys) THEN <<>>
    ELSE IF has_key(metadata, palabras_keys[k])
    THEN entries(metadata, palabras_keys[k])
    ELSE palabras_desde(metadata, k + 1)

palabras_de(indexable) ==
    LET palabras == palabras_desde(indexable.metadata, 1)
    IN  IF palabras # <<>> THEN Val(join(palabras)) ELSE NaN

HandleUrl == "https://cgspace.cgiar.org/handle/"

\* f"https://cgspace.cgiar.org/handle/{handle}" if handle else None
enlace_de(indexable) ==
    IF notna(indexable.handle) /\ indexable.handle[1] # <<>>
    THEN Val(<<HandleUrl>> \o indexable.handle[1])
    ELSE NaN

\* The body of the loop over objects: the row appended to filas, or the
\* exception that ends the call.  i is the row's place in filas.
fila_de(indexable, i) ==
    LET t == titulo_de(indexable)
        a == anio_de(indexable)
        c == pais_de(indexable)
    IN  IF t.exc # "none" THEN Raised(t.exc)
        ELSE IF a.exc # "none" THEN Raised(a.exc)
        ELSE IF c.exc # "none" THEN Raised(c.exc)
        ELSE Returned(<< [idx |-> i, Titulo |-> t.v, Anio |-> a.v, Pais |-> c.v,
                          PalabrasClave |-> palabras_de(indexable),
                          Enlace |-> enlace_de(indexable)] >>)

-----------------------------------------------------------------------------
(* Inputs of the normalisation *)

s2020 == <<"2", "0", "2", "0", "-", "0", "5">>
s2019 == <<"2", "0", "1", "9">>
s199 == <<"1", "9", "9">>
nd == <<"n", ".", "d", ".">>
Ke == <<"K", "e">>
Ug == <<"U", "g">>
t1 == <<"t", "1">>
t2 == <<"t", "2">>
t3 == <<"t", "3">>
k1 == <<"k", "1">>
k2 == <<"k", "2">>
k3 == <<"k", "3">>
k4 == <<"k", "4">>

MetadataKeys ==
    Range(titulo_keys) \cup Range(anio_keys) \cup Range(pais_keys)
        \cup Range(palabras_keys)

\* the lists a response may carry under each key (NaN: the key is missing)
ValuesOf(key) ==
    CASE key = "dc.title" -> {NaN, Val(<<t1>>), Val(<<>>)}
      [] key = "dcterms.title" -> {NaN, Val(<<t2>>)}
      [] key = "dcterms.issued" -> {NaN, Val(<<s2020>>), Val(<<nd>>), Val(<<s199>>)}
      [] key = "dc.date.issued" -> {NaN, Val(<<s2019>>), Val(<<nd>>)}
      [] key = "cg.country" -> {NaN, Val(<<Pe>>)}
      [] key = "cg.coverage.country" -> {NaN, Val(<<Ke, Ug>>)}
      [] key = "dc.coverage.spatial" -> {NaN, Val(<<Ug>>)}
      [] key = "cg.subject" -> {NaN, Val(<<k1, k2>>)}
      [] key = "dc.subject" -> {NaN, Val(<<k3>>)}
      [] key = "dcterms.subject" -> {NaN, Val(<<k4>>), Val(<<>>)}

KeyOrder ==
    <<"dc.title", "dcterms.title", "dcterms.issued", "dc.date.issued",
      "cg.country", "cg.coverage.country", "dc.coverage.spatial",
      "cg.subject", "dc.subject", "dcterms.subject">>

KeyNumber(key) == CHOOSE i \in 1..Len(KeyOrder) : KeyOrder[i] = key

Metadatas ==
    { [key \in MetadataKeys |-> c[KeyNumber(key)]] :
        c \in ValuesOf(KeyOrder[1]) \X ValuesOf(KeyOrder[2]) \X ValuesOf(KeyOrder[3])
            \X ValuesOf(KeyOrder[4]) \X ValuesOf(KeyOrder[5]) \X ValuesOf(KeyOrder[6])
            \X ValuesOf(KeyOrder[7]) \X ValuesOf(KeyOrder[8]) \X ValuesOf(KeyOrder[9])
            \X ValuesOf(KeyOrder[10]) }

Indexables ==
    [metadata : Metadatas, name : {NaN, Val(t3)}, handle : {NaN, Val(<<"1", "0">>)}]

InitApi ==
    /\ obj \in Indexables
    /\ fila = Returned(EmptyDataFrame)
    /\ pc = "call"
    /\ SearchIdle /\ PanelIdle /\ SessionIdle

NormalizeObject ==
    /\ pc = "call"
    /\ fila' = fila_de(obj, 0)
    /\ pc' = "done"
    /\ UNCHANGED <<obj, search_vars, panel_vars, session_vars>>

NextApi == NormalizeObject

SpecApi == InitApi /\ [][NextApi]_vars

-----------------------------------------------------------------------------
(* Properties of the normalisation *)

Normalized == pc = "done" /\ fila.exc = "none"

FirstValue(metadata, key) == Val(entries(metadata, key)[1])

\* title: dc.title, then dcterms.title, then the top-level name
TitleFirstPresent(o, row) ==
    LET m == o.metadata
    IN  /\ has_key(m, "dc.title") => row.Titulo = FirstValue(m, "dc.title")
        /\ ~has_key(m, "dc.title") /\ has_key(m, "dcterms.title") =>
               row.Titulo = FirstValue(m, "dcterms.title")
        /\ ~has_key(m, "dc.title") /\ ~has_key(m, "dcterms.title") =>
               row.Titulo = o.name

\* country: cg.country, then cg.coverage.country, then dc.coverage.spatial
CountryFirstPresent(o, row) ==
    LET m == o.metadata
    IN  /\ has_key(m, "cg.country") => row.Pais = FirstValue(m, "cg.country")
        /\ ~has_key(m, "cg.country") /\ has_key(m, "cg.coverage.country") =>
               row.Pais = FirstValue(m, "cg.coverage.country")
        /\ ~has_key(m, "cg.country") /\ ~has_key(m, "cg.coverage.country") =>
               IF has_key(m, "dc.coverage.spatial")
               THEN row.Pais = FirstValue(m, "dc.coverage.spatial")
               ELSE row.Pais = NaN

Joined(list) == IF list = <<>> THEN NaN ELSE Val(join(list))

\* keywords: cg.subject, then dc.subject, then dcterms.subject
KeywordsFirstPresent(o, row) ==
    LET m == o.metadata
    IN  /\ has_key(m, "cg.subject") =>
               row.PalabrasClave = Joined(entries(m, "cg.subject"))
        /\ ~has_key(m, "cg.subject") /\ has_key(m, "dc.subject") =>
               row.PalabrasClave = Joined(entries(m, "dc.subject"))
        /\ ~has_key(m, "cg.subject") /\ ~has_key(m, "dc.subject") =>
               IF has_key(m, "dcterms.subject")
               THEN row.PalabrasClave = Joined(entries(m, "dcterms.subject"))
               ELSE row.PalabrasClave = NaN

YearOf(v) == IF year_parses(v) THEN Val(int_prefix4(v)) ELSE NaN

\* year decided by the first key that is present, whatever its value
YearFirstPresent(o, row) ==
    LET m == o.metadata
    IN  /\ has_key(m, "dcterms.issued") =>
               row.Anio = YearOf(entries(m, "dcterms.issued")[1])
        /\ ~has_key(m, "dcterms.issued") =>
               IF has_key(m, "dc.date.issued")
               THEN row.Anio = YearOf(entries(m, "dc.date.issued")[1])
               ELSE row.Anio = NaN

Parses(m, key) == has_key(m, key) /\ year_parses(entries(m, key)[1])

\* year decided by the first key that is present with a value that parses
YearFirstParsing(o, row) ==
    LET m == o.metadata
    IN  /\ Parses(m, "dcterms.issued") =>
               row.Anio = Val(int_prefix4(entries(m, "dcterms.issued")[1]))
        /\ ~Parses(m, "dcterms.issued") =>
               IF Parses(m, "dc.date.issued")
               THEN row.Anio = Val(int_prefix4(entries(m, "dc.date.issued")[1]))
               ELSE row.Anio = NaN

\* C5 as stated: every fallback chain, the year chain included, takes the
\* first candidate key present in the metadata and never consults a later one.
C5_FirstPresentWins ==
    Normalized =>
        /\ TitleFirstPresent(obj, fila.df[1])
        /\ YearFirstPresent(obj, fila.df[1])
        /\ CountryFirstPresent(obj, fila.df[1])
        /\ KeywordsFirstPresent(obj, fila.df[1])

\* C5 amended: title, country and keywords take the first candidate key
\* present; the year takes the first candidate key that is present and whose
\* first value starts with four digits, so a present key whose value does not
\* parse is passed over and the next candidate is consulted.
C5_FirstPresentOrParsingWins ==
    Normalized =>
        /\ TitleFirstPresent(obj, fila.df[1])
        /\ YearFirstParsing(obj, fila.df[1])
        /\ CountryFirstPresent(obj, fila.df[1])
        /\ KeywordsFirstPresent(obj, fila.df[1])

\* competing candidates for every field, the first year key not parsing
C5_Witness ==
    /\ Normalized
    /\ \A key \in MetadataKeys : has_key(obj.metadata, key)
    /\ ~year_parses(entries(obj.metadata, "dcterms.issued")[1])
    /\ year_parses(entries(obj.metadata, "dc.date.issued")[1])
    /\ fila.df[1].Anio = Val(2019)
    /\ fila.df[1].Titulo = Val(t1)

-----------------------------------------------------------------------------
(* The filter panel *)

\* sorted(df_res["Año"].dropna().unique().tolist()), as a set
anios_validos(d) == {d[i].Anio[1] : i \in {j \in 1..Len(d) : notna(d[j].Anio)}}

SetMin(S) == CHOOSE x \in S : \A y \in S : x <= y
SetMax(S) == CHOOSE x \in S : \A y \in S : x >= y

\* the (lo, hi) pairs the slider can return
slider_values(min_year, max_year) ==
    {r \in (min_year..max_year) \X (min_year..max_year) : r[1] <= r[2]}

\* the year filter with the upper end of the range left out
filtrar_anio_exclusive(d, r) ==
    boolean_index(d, {row \in Range(d) :
        notna(row.Anio) /\ row.Anio[1] >= r[1] /\ row.Anio[1] < r[2]})

\* df_res[(df_res["Año"] >= year_range[0]) & (df_res["Año"] <= year_range[1])]
\* (a comparison with NaN is False)
filtrar_anio(d, r) ==
    boolean_index(d, {row \in Range(d) :
        notna(row.Anio) /\ row.Anio[1] >= r[1] /\ row.Anio[1] <= r[2]})

\* sorted(df_res["País"].dropna().unique().tolist()), as a set
paises_unicos(d) == {d[i].Pais[1] : i \in {j \in 1..Len(d) : notna(d[j].Pais)}}

\* the country filter keeping the rows with a missing country as well
filtrar_pais_keep_nan(d, sel) ==
    boolean_index(d, {row \in Range(d) : isna(row.Pais) \/ row.Pais[1] \in sel})

\* df_res[df_res["País"].isin(paises_sel)] (NaN is in no selection)
filtrar_pais(d, sel) ==
    boolean_index(d, {row \in Range(d) : notna(row.Pais) /\ row.Pais[1] \in sel})

PanelFrames(maxlen) ==
    UNION { { [i \in 1..n |-> Row(i - 1, [Titulo |-> Val(ab), Pais |-> c[i][1],
                                          PalabrasClave |-> NaN], c[i][2])] :
                c \in [1..n -> {NaN, Val(Pe), Val(Co)}
                                  \X {NaN, Val(2018), Val(2020)}] } :
            n \in 0..maxlen }

InitPanel ==
    /\ df_res \in PanelFrames(MaxRows)
    /\ year_range = NaN
    /\ paises_sel = {}
    /\ df_year = EmptyDataFrame
    /\ df_pais = EmptyDataFrame
    /\ pc = "render"
    /\ SearchIdle /\ ApiIdle /\ SessionIdle

\* with col_panel: the filters, from the frame of the session to the frame shown
RenderPanel ==
    /\ pc = "render"
    /\ df_res # EmptyDataFrame
    /\ \E r \in IF Cardinality(anios_validos(df_res)) > 1
                THEN {Val(v) : v \in slider_values(SetMin(anios_validos(df_res)),
                                                   SetMax(anios_validos(df_res)))}
                ELSE {NaN} :
          /\ year_range' = r
          /\ df_year' = IF notna(r) THEN filtrar_anio(df_res, r[1]) ELSE df_res
    /\ paises_sel' \in SUBSET paises_unicos(df_year')
    /\ df_pais' = IF paises_sel' # {} THEN filtrar_pais(df_year', paises_sel')
                  ELSE df_year'
    /\ pc' = "shown"
    /\ UNCHANGED <<df_res, search_vars, api_vars, session_vars>>

\* df_res is None or df_res.empty: only the hint is shown
RenderEmptyPanel ==
    /\ pc = "render"
    /\ df_res = EmptyDataFrame
    /\ pc' = "hint"
    /\ UNCHANGED <<panel_vars, search_vars, api_vars, session_vars>>

NextPanel == RenderPanel \/ RenderEmptyPanel

SpecPanel == InitPanel /\ [][NextPanel]_vars

-----------------------------------------------------------------------------
(* Properties of the filter panel *)

Shown == pc = "shown"

\* out holds exactly the rows of in that are in the set K, in the order of in
KeepsExactly(out, in, K) ==
    /\ \A i \in 1..Len(in) : in[i] \in K <=> \E j \in 1..Len(out) : out[j] = in[i]
    /\ \A j \in 1..Len(out) : \E i \in 1..Len(in) : out[j] = in[i]
    /\ \A j, k \in 1..Len(out) : j < k => out[j].idx < out[k].idx

\* C6 as stated: with every distinct country present selected, the country
\* filter returns the result set unchanged.
C6_FullSelectionIsIdentity ==
    Shown /\ paises_sel = paises_unicos(df_year) => df_pais = df_year

\* C6 amended: with every distinct country present selected, the country
\* filter returns exactly the records that have a country, in their order,
\* when at least one record has a country, and the result set unchanged when
\* none has; so it is the identity on result sets without absent countries.
C6_FullSelectionDropsAbsent ==
    LET HasCountry(row) == notna(row.Pais)
    IN  Shown /\ paises_sel = paises_unicos(df_year) =>
            /\ paises_sel # {} => KeepsExactly(df_pais, df_year, {r \in Range(df_year) : HasCountry(r)})
            /\ paises_sel = {} => df_pais = df_year
            /\ (\A i \in 1..Len(df_year) : HasCountry(df_year[i])) =>
                   df_pais = df_year

\* the full selection applied to a result set with an absent country
C6_Witness ==
    /\ Shown
    /\ paises_sel = paises_unicos(df_year)
    /\ Cardinality(paises_sel) = 2
    /\ \E i \in 1..Len(df_year) : isna(df_year[i].Pais)
    /\ Len(df_pais) = 2

\* C7: the year-range filter keeps exactly the records with a year inside the
\* inclusive range, so none with an absent year; it is applied only with more
\* than one distinct year, otherwise no record is removed; the country filter
\* with a non-empty selection keeps exactly the records whose country is
\* selected, so none with an absent country.
C7_FiltersKeepExactly ==
    LET InRange(row) ==
            /\ notna(row.Anio)
            /\ year_range[1][1] <= row.Anio[1]
            /\ row.Anio[1] <= year_range[1][2]
        Selected(row) == notna(row.Pais) /\ row.Pais[1] \in paises_sel
    IN  Shown =>
            /\ notna(year_range) <=> Cardinality(anios_validos(df_res)) > 1
            /\ notna(year_range) =>
                   /\ KeepsExactly(df_year, df_res, {r \in Range(df_res) : InRange(r)})
                   /\ \A j \in 1..Len(df_year) : notna(df_year[j].Anio)
            /\ isna(year_range) => df_year = df_res
            /\ paises_sel # {} =>
                   /\ KeepsExactly(df_pais, df_year, {r \in Range(df_year) : Selected(r)})
                   /\ \A j \in 1..Len(df_pais) : notna(df_pais[j].Pais)

\* both filters applied and both removing a record with an absent value,
\* the year range ending on a year that is kept
C7_Witness ==
    /\ Shown
    /\ year_range = Val(<<2018, 2020>>)
    /\ \E i \in 1..Len(df_res) : isna(df_res[i].Anio)
    /\ \E i \in 1..Len(df_year) : isna(df_year[i].Pais)
    /\ paises_sel # {}
    /\ Len(df_pais) = 1
    /\ df_pais[1].Anio = Val(2020)
    /\ Len(df_res) = 3

-----------------------------------------------------------------------------
(* buscar_en_cgspace_api: the whole call.  A response is what requests.get *)
(* and raise_for_status produce: an exception, or the list of indexable    *)
(* objects of the body.  The st.cache_data wrapper only repeats an earlier *)
(* return value and is left out: any response may answer any call.         *)

\* the loop over objects, from object number i on, filas being the rows so far
RECURSIVE filas_desde(_, _, _)
filas_desde(objects, i, filas) ==
    IF i > Len(objects) THEN Returned(filas)
    ELSE LET f == fila_de(objects[i], i - 1)
         IN  IF f.exc # "none" THEN Raised(f.exc)
             ELSE filas_desde(objects, i + 1, filas \o f.df)

buscar_en_cgspace_api(q, resp) ==
    IF q = <<>> THEN Returned(EmptyDataFrame)
    ELSE IF resp.status # "ok" THEN Raised(resp.status)
    ELSE filas_desde(resp.objects, 1, <<>>)

-----------------------------------------------------------------------------
(* The reply of the agent (lines 230-275) *)

\* Series.dropna().unique().tolist(): distinct values in order of appearance
RECURSIVE unique(_)
unique(l) ==
    IF l = <<>> THEN <<>>
    ELSE LET init == unique(SubSeq(l, 1, Len(l) - 1))
             x == l[Len(l)]
         IN  IF x \in Range(init) THEN init ELSE Append(init, x)

\* Series.dropna().tolist() of one column
dropna(d, col) ==
    LET rows == boolean_index(d, {row \in Range(d) : notna(row[col])})
    IN  [i \in 1..Len(rows) |-> rows[i][col][1]]

ND == NaN

\* rango_años: (min, max) of the years present, or "N/D"
rango_anios(d) ==
    IF anios_validos(d) # {}
    THEN Val(<<SetMin(anios_validos(d)), SetMax(anios_validos(d))>>)
    ELSE ND

\* paises: the list joined with ", ", or "N/D" when the list is empty
paises_de(d) ==
    LET l == unique(dropna(d, "Pais"))
    IN  IF l # <<>> THEN Val(l) ELSE ND

\* the title preview taking head(3) before dropna()
titulos_ejemplo_head_first(d) == dropna(head(d, 3), "Titulo")

\* df_resultados["Título"].dropna().head(3).tolist()
titulos_ejemplo(d) == head(dropna(d, "Titulo"), 3)

respuesta_de(d, fuente) ==
    IF d = EmptyDataFrame
    THEN [kind |-> "empty",
          origen |-> IF fuente = CSV_LOCAL
                     THEN "subconjunto local de CGSpace (CSV de ejemplo)"
                     ELSE "API de CGSpace"]
    ELSE [kind |-> "found",
          n |-> Len(d),
          rango_anios |-> rango_anios(d),
          paises |-> paises_de(d),
          titulos_ejemplo |-> titulos_ejemplo(d),
          origen |-> IF fuente = CSV_LOCAL THEN "subconjunto local (CSV)"
                     ELSE "API de CGSpace"]

\* the reply of the except branch: it names type(e).__name__
respuesta_error(e) == [kind |-> "error", exc |-> e]

SummaryRows ==
    { [Titulo |-> Val(Co), Anio |-> Val(2020), Pais |-> Val(Pe)],
      [Titulo |-> Val(ab), Anio |-> Val(2019), Pais |-> Val(Co)],
      [Titulo |-> NaN,     Anio |-> NaN,       Pais |-> NaN],
      [Titulo |-> Val(ab), Anio |-> NaN,       Pais |-> Val(Pe)],
      [Titulo |-> Val(Pe), Anio |-> Val(2019), Pais |-> NaN] }

SummaryFrames(maxlen) ==
    UNION { { [i \in 1..n |-> Row(i - 1, [Titulo |-> c[i].Titulo, Pais |-> c[i].Pais,
                                          PalabrasClave |-> NaN], c[i].Anio)] :
                c \in [1..n -> SummaryRows] } : n \in 0..maxlen }

InitSummary ==
    /\ df_resultados \in SummaryFrames(MaxSummaryRows)
    /\ fuente_datos \in {CSV_LOCAL, API_CGSPACE}
    /\ respuesta = Idle
    /\ df_base = Idle /\ messages = Idle /\ results_df = Idle /\ exc = "none"
    /\ pc = "summarize"
    /\ SearchIdle /\ ApiIdle /\ PanelIdle

BuildRespuesta ==
    /\ pc = "summarize"
    /\ respuesta' = respuesta_de(df_resultados, fuente_datos)
    /\ pc' = "done"
    /\ UNCHANGED <<df_base, messages, results_df, df_resultados, fuente_datos, exc,
                   search_vars, api_vars, panel_vars>>

NextSummary == BuildRespuesta

SpecSummary == InitSummary /\ [][NextSummary]_vars

-----------------------------------------------------------------------------
(* Properties of the reply *)

\* the k-th member of the set P of positions, counted from the lowest
KthOf(P, k) == CHOOSE p \in P : Cardinality({r \in P : r < p}) = k - 1

\* C8: a non-empty result set is summarised by the count of all records, the
\* min and max over the years present (also when they are equal; "N/D" when no
\* record has a year), the distinct countries in first-seen order without the
\* absent ones ("N/D" when none), and the first 3 non-absent titles in result
\* order; an empty result set by the fixed no-documents reply naming the source.
C8_Summary ==
    pc = "done" =>
        LET d == df_resultados
            Y == {d[i].Anio[1] : i \in {j \in 1..Len(d) : notna(d[j].Anio)}}
            C == {d[i].Pais[1] : i \in {j \in 1..Len(d) : notna(d[j].Pais)}}
            FirstPos(c) == CHOOSE i \in 1..Len(d) :
                               /\ d[i].Pais = Val(c)
                               /\ \A j \in 1..(i - 1) : d[j].Pais # Val(c)
            T == {i \in 1..Len(d) : notna(d[i].Titulo)}
        IN  IF Len(d) = 0
            THEN /\ respuesta.kind = "empty"
                 /\ respuesta.origen =
                        IF fuente_datos = CSV_LOCAL
                        THEN "subconjunto local de CGSpace (CSV de ejemplo)"
                        ELSE "API de CGSpace"
            ELSE /\ respuesta.kind = "found"
                 /\ respuesta.n = Len(d)
                 /\ Y = {} => respuesta.rango_anios = ND
                 /\ Y # {} =>
                        /\ notna(respuesta.rango_anios)
                        /\ respuesta.rango_anios[1][1] \in Y
                        /\ respuesta.rango_anios[1][2] \in Y
                        /\ \A y \in Y : /\ respuesta.rango_anios[1][1] <= y
                                        /\ y <= respuesta.rango_anios[1][2]
                 /\ C = {} => respuesta.paises = ND
                 /\ C # {} =>
                        /\ notna(respuesta.paises)
                        /\ Len(respuesta.paises[1]) = Cardinality(C)
                        /\ Range(respuesta.paises[1]) = C
                        /\ \A j, k \in 1..Len(respuesta.paises[1]) : j < k =>
                               FirstPos(respuesta.paises[1][j])
                                   < FirstPos(respuesta.paises[1][k])
                 /\ Len(respuesta.titulos_ejemplo) = Min(3, Cardinality(T))
                 /\ \A k \in 1..Len(respuesta.titulos_ejemplo) :
                        respuesta.titulos_ejemplo[k] = d[KthOf(T, k)].Titulo[1]

\* four records, the first title absent, a country repeated, equal min and max
C8_Witness ==
    /\ pc = "done"
    /\ Len(df_resultados) = 4
    /\ isna(df_resultados[1].Titulo)
    /\ Len(respuesta.titulos_ejemplo) = 3
    /\ respuesta.titulos_ejemplo[3] = df_resultados[4].Titulo[1]
    /\ respuesta.rango_anios = Val(<<2019, 2019>>)
    /\ respuesta.paises = Val(<<Pe, Co>>)
    /\ df_resultados[4].Pais = Val(Pe)

-----------------------------------------------------------------------------
(* The session: st.session_state and the chat turn handler (lines 181-279) *)

LOCAL_MAX_RESULTS == 200

user_message(text) == [role |-> "user", content |-> [kind |-> "input", text |-> text]]
assistant_message(r) == [role |-> "assistant", content |-> r]

NoMetadata == [key \in MetadataKeys |-> NaN]

\* objects of a response: a complete one, one whose year comes from the
\* second date field, and one with an empty title list
Object2020 ==
    [metadata |-> [NoMetadata EXCEPT !["dc.title"] = Val(<<t1>>),
                                     !["dcterms.issued"] = Val(<<s2020>>),
                                     !["cg.country"] = Val(<<Pe>>)],
     name |-> Val(t3), handle |-> Val(<<"1", "0">>)]
Object2019 ==
    [metadata |-> [NoMetadata EXCEPT !["dcterms.title"] = Val(<<t2>>),
                                     !["dcterms.issued"] = Val(<<nd>>),
                                     !["dc.date.issued"] = Val(<<s2019>>)],
     name |-> NaN, handle |-> NaN]
ObjectNoTitle ==
    [metadata |-> [NoMetadata EXCEPT !["dc.title"] = Val(<<>>)],
     name |-> Val(t3), handle |-> NaN]

\* what the request of a turn may come back with
Responses ==
    { [status |-> "HTTPError", objects |-> <<>>],
      [status |-> "ok", objects |-> <<>>],
      [status |-> "ok", objects |-> <<Object2020, Object2019>>],
      [status |-> "ok", objects |-> <<Object2019, Object2020>>],
      [status |-> "ok", objects |-> <<Object2020, ObjectNoTitle>>] }

\* the rows of the collection the session is started on
BaseRows ==
    { <<[Titulo |-> Val(Co), Pais |-> Val(Pe), PalabrasClave |-> NaN], Val(2019)>>,
      <<[Titulo |-> Val(Co), Pais |-> Val(Pe), PalabrasClave |-> NaN], Val(2020)>>,
      <<[Titulo |-> Val(ab), Pais |-> NaN, PalabrasClave |-> Val(co_x)], NaN>>,
      <<[Titulo |-> Val(ab), Pais |-> Val(Pe), PalabrasClave |-> Val(ab)], Val(2020)>> }

BaseFrames(maxlen) ==
    UNION { { [i \in 1..n |-> Row(i - 1, c[i][1], c[i][2])] :
                c \in [1..n -> BaseRows] } : n \in 0..maxlen }

UserInputs == { <<"C", "O">>, <<"(">> }

InitSession ==
    /\ df_base \in BaseFrames(MaxBaseRows)
    /\ messages = <<>>
    /\ results_df = df_base
    /\ df_resultados = EmptyDataFrame
    /\ fuente_datos = CSV_LOCAL
    /\ respuesta = Idle
    /\ exc = "none"
    /\ pc = "session"
    /\ SearchIdle /\ ApiIdle /\ PanelIdle

\* the sidebar radio: a rerun of the script with no chat input
SelectFuente ==
    /\ pc = "session"
    /\ fuente_datos' \in {CSV_LOCAL, API_CGSPACE} \ {fuente_datos}
    /\ UNCHANGED <<df_base, messages, results_df, df_resultados, respuesta, exc,
                   pc, search_vars, api_vars, panel_vars>>

\* the handler with the except branch storing the empty frame it builds
turn_effect_store_on_error(outcome, user_input) ==
    IF outcome.exc # "none"
    THEN /\ df_resultados' = EmptyDataFrame
         /\ results_df' = EmptyDataFrame
         /\ respuesta' = respuesta_error(outcome.exc)
         /\ messages' = messages \o <<user_message(user_input),
                                      assistant_message(respuesta')>>
    ELSE /\ df_resultados' = outcome.df
         /\ results_df' = outcome.df
         /\ respuesta' = respuesta_de(outcome.df, fuente_datos)
         /\ messages' = messages \o <<user_message(user_input),
                                      assistant_message(respuesta')>>

\* the handler with the reply of the except branch never appended
turn_effect_silent_error(outcome, user_input) ==
    IF outcome.exc # "none"
    THEN /\ df_resultados' = EmptyDataFrame
         /\ results_df' = results_df
         /\ respuesta' = respuesta_error(outcome.exc)
         /\ messages' = Append(messages, user_message(user_input))
    ELSE /\ df_resultados' = outcome.df
         /\ results_df' = outcome.df
         /\ respuesta' = respuesta_de(outcome.df, fuente_datos)
         /\ messages' = messages \o <<user_message(user_input),
                                      assistant_message(respuesta')>>

\* what the handler does once the search call has ended with outcome:
\* lines 207 and 217-226 (except) or 227-279 (else)
turn_effect(outcome, user_input) ==
    IF outcome.exc # "none"
    THEN /\ df_resultados' = EmptyDataFrame
         /\ results_df' = results_df
         /\ respuesta' = respuesta_error(outcome.exc)
         /\ messages' = messages \o <<user_message(user_input),
                                      assistant_message(respuesta')>>
    ELSE /\ df_resultados' = outcome.df
         /\ results_df' = outcome.df
         /\ respuesta' = respuesta_de(outcome.df, fuente_datos)
         /\ messages' = messages \o <<user_message(user_input),
                                      assistant_message(respuesta')>>

\* the local search without its sort_values
local_search_unsorted(user_input) ==
    IF re_error(lower(user_input)) THEN {Raised("re.error")}
    ELSE {Returned(head(boolean_index(df_base,
                 {row \in Range(df_base) : mask(lower(user_input), row)}),
             LOCAL_MAX_RESULTS))}

\* line 214
local_search(user_input) ==
    buscar_localmente(user_input, df_base, LOCAL_MAX_RESULTS)

\* line 216, for every response the request may get
api_search(user_input) ==
    {buscar_en_cgspace_api(user_input, resp) : resp \in Responses}

\* if user_input: ... (one chat turn)
ChatTurn ==
    /\ pc = "session"
    /\ Len(messages) < 2 * MaxTurns
    /\ \E user_input \in UserInputs :
         \E outcome \in IF fuente_datos = CSV_LOCAL THEN local_search(user_input)
                        ELSE api_search(user_input) :
            /\ exc' = outcome.exc
            /\ turn_effect(outcome, user_input)
    /\ UNCHANGED <<df_base, fuente_datos, pc, search_vars, api_vars, panel_vars>>

NextSession == SelectFuente \/ ChatTurn

SpecSession == InitSession /\ [][NextSession]_vars

-----------------------------------------------------------------------------
(* Properties of the session *)

Last(seq) == seq[Len(seq)]

\* a step of the turn handler: the transcript is the only thing every turn changes
TurnStep == messages' # messages

\* C1: a turn whose search call raises leaves results_df as it was and appends
\* an assistant message with the error; only a turn whose search call returns
\* replaces results_df, and it replaces it with the returned result set.
C1_FailedTurnKeepsResults ==
    [][ /\ TurnStep /\ exc' # "none" =>
            /\ results_df' = results_df
            /\ Last(messages').role = "assistant"
            /\ Last(messages').content = [kind |-> "error", exc |-> exc']
        /\ TurnStep /\ exc' = "none" =>
            /\ results_df' = df_resultados'
            /\ Last(messages').content.kind # "error"
            /\ Returned(results_df') \in
                   IF fuente_datos = CSV_LOCAL
                   THEN local_search(messages'[Len(messages') - 1].content.text)
                   ELSE api_search(messages'[Len(messages') - 1].content.text)
        /\ results_df' # results_df => TurnStep /\ exc' = "none"
      ]_vars

\* a failed remote turn after a turn that stored records
C1_Witness ==
    /\ pc = "session"
    /\ Len(messages) = 4
    /\ exc = "HTTPError"
    /\ messages[2].content.kind = "found"
    /\ Last(messages).content.kind = "error"
    /\ Len(results_df) = 2
    /\ results_df # df_base

\* years in descending order, records without a year last
YearDescending(d) ==
    \A i, j \in 1..Len(d) : i < j => ~YearBefore(d[j].Anio, d[i].Anio)

C10_TranscriptAppendOnly ==
    /\ [][ /\ ChatTurn => Len(messages') = Len(messages) + 2
           /\ Len(messages') >= Len(messages)
           /\ SubSeq(messages', 1, Len(messages)) = messages
           /\ TurnStep =>
                /\ Len(messages') = Len(messages) + 2
                /\ messages'[Len(messages) + 1].role = "user"
                /\ messages'[Len(messages) + 1].content.kind = "input"
                /\ messages'[Len(messages) + 2].role = "assistant"
                /\ messages'[Len(messages) + 2].content.kind
                       \in {"found", "empty", "error"}
         ]_vars
    /\ [](pc = "session" =>
            /\ Len(messages) % 2 = 0
            /\ \A i \in 1..Len(messages) :
                   messages[i].role = IF i % 2 = 1 THEN "user" ELSE "assistant")

\* two turns, one that found records and one that failed
C10_Witness ==
    /\ pc = "session"
    /\ Len(messages) = 4
    /\ messages[2].content.kind = "found"
    /\ messages[4].content.kind = "error"
    /\ messages[1].content.text # messages[3].content.text

====
